---------------------------- MODULE Spec2Model ----------------------------
(***************************************************************************)
(* Model of dns.c: a filtering DNS forwarder.  One thread polls two UDP    *)
(* sockets; a client datagram is classified (format error / not            *)
(* implemented / refused / forward), an upstream datagram is routed back   *)
(* through a 32-slot table keyed by transaction id.                        *)
(*                                                                         *)
(* Octets are integers 0..255, datagrams and the shared receive buffer are *)
(* sequences of octets (TLA+ index = C index + 1).                         *)
(***************************************************************************)
EXTENDS Integers, Sequences, FiniteSets, TLC

VARIABLES
    pc,             \* where main is: "poll" (l.414), "client" (l.419), "server" (l.505), "exit"
    revents,        \* [c, s]: POLLIN of fds[1] (client socket) and fds[0] (server socket)
    buffer,         \* resp->buffer, never cleared between datagrams
    ids, ports, addresses,   \* the three 32-element arrays of main
    portsCounter,   \* write cursor
    blacklist,      \* blacklist->r, fixed after startup
    charSigned,     \* whether plain char is signed in this build
    ev,             \* history: what the last step received, decided and sent
    recLog          \* history: every table write so far, in order

vars == <<pc, revents, buffer, ids, ports, addresses, portsCounter,
          blacklist, charSigned, ev, recLog>>

\* resp->length and clientAddress are assigned by recvfrom (or, for an answer,
\* from the table) at the start of each branch before they are read, so they
\* carry nothing from one datagram to the next: within a step they are
\* Len(rcvd) and src / to, and ev records them.

-----------------------------------------------------------------------------
(* Program constants *)

TableSize == 32
WrapAt == 31
HeaderSize == 12
NameSize == 512

(* Bounds of the model *)

\* octets of resp->buffer that are modelled (BUFFER_SIZE is 1000 in the source);
\* a read at or past this index is treated as a read of indeterminate memory
BufLen == 24
\* table writes allowed in the mixed-traffic specification
MaxRecords == 1
\* table writes allowed in the ring specification
MaxRing == 33

-----------------------------------------------------------------------------
(* Octet helpers *)

Hi(n) == (n \div 256) % 256
Lo(n) == n % 256
U16(b1, b2) == b1 * 256 + b2
Bit(b, w) == (b \div w) % 2
SetBit(b, w) == IF Bit(b, w) = 1 THEN b ELSE b + w

\* the value of a plain char holding octet b, as an int
SChar(b, signed) == IF signed /\ b >= 128 THEN b - 256 ELSE b

\* first n octets of s
Take(s, n) == SubSeq(s, 1, n)

OverlayNone(buf, d) == buf

\* recvfrom writes the datagram over the start of the buffer; the rest stays
Overlay(buf, d) == [i \in 1..Len(buf) |-> IF i <= Len(d) THEN d[i] ELSE buf[i]]

\* the C string held in a char array: the octets before the first NUL
RECURSIVE CStr(_)
CStr(s) == IF s = <<>> \/ Head(s) = 0 THEN <<>> ELSE <<Head(s)>> \o CStr(Tail(s))

\* strstr(hay, needle) != NULL, both C strings without NUL
StrStr(hay, needle) ==
    \E i \in 0..(Len(hay) - Len(needle)) : SubSeq(hay, i + 1, i + Len(needle)) = needle

-----------------------------------------------------------------------------
(* isBlacklisted, l.159-168 *)

isBlacklistedNoCheck(name, bl) == FALSE

isBlacklistedFirstOnly(name, bl) == Len(bl) >= 1 /\ StrStr(CStr(name), bl[1])

isBlacklisted(name, bl) == \E i \in 1..Len(bl) : StrStr(CStr(name), bl[i])

-----------------------------------------------------------------------------
(* getDnsRequestData, l.213-232.  ptr = buffer + 12, so ptr[k] is           *)
(* buf[HeaderSize + k + 1].  Walk is the outer while loop: at its head      *)
(* counter = offset + 1 always holds.                                       *)

Ptr(buf, k) == buf[HeaderSize + k + 1]
InBuf(buf, k) == HeaderSize + k + 1 <= Len(buf)

RECURSIVE Walk(_, _, _, _, _, _)
Walk(buf, signed, sum, offset, counter, url) ==
    IF sum = 0
    THEN [url |-> url, counter |-> counter, oob |-> FALSE]
    ELSE LET url1 == IF offset # 0 THEN Append(url, 46) ELSE url
             last == offset + sum
             n == IF last >= counter THEN last - counter + 1 ELSE 0
             counter1 == counter + n
         IN  IF ~InBuf(buf, counter1)
             THEN [url |-> url1, counter |-> counter1, oob |-> TRUE]
             ELSE Walk(buf, signed, SChar(Ptr(buf, counter1), signed), counter1, counter1 + 1,
                       url1 \o SubSeq(buf, HeaderSize + counter + 1, HeaderSize + counter1))

\* the result of the call: name, type, class, whether the call left the
\* modelled buffer (oob) or wrote past name[NameSize-1] (ovf), how many octets
\* from the start of the buffer it read (span: the last read is of the second
\* class octet) and how many octets of name it wrote (wrote: the name and its NUL)
getDnsRequestData(buf, signed) ==
    LET w == Walk(buf, signed, SChar(Ptr(buf, 0), signed), 0, 1, <<>>)
        c == w.counter
        bad == w.oob \/ ~InBuf(buf, c + 3)
    IN  [name |-> w.url,
         type |-> IF bad THEN 0 ELSE U16(Ptr(buf, c), Ptr(buf, c + 1)),
         class |-> IF bad THEN 0 ELSE U16(Ptr(buf, c + 2), Ptr(buf, c + 3)),
         oob |-> bad,
         ovf |-> Len(w.url) >= NameSize,
         span |-> HeaderSize + c + 4,
         wrote |-> Len(w.url) + 1]

-----------------------------------------------------------------------------
(* Header test of l.429 and header rewrite of l.444-450 / 462-468 / 479-485 *)

badPacketNoAncount(buf) ==
    \/ Bit(buf[3], 128) # 0
    \/ Bit(buf[4], 64) # 0
    \/ Bit(buf[4], 16) # 0
    \/ U16(buf[5], buf[6]) = 0

badPacket(buf) ==
    \/ Bit(buf[3], 128) # 0            \* qr
    \/ Bit(buf[4], 64) # 0             \* unused
    \/ Bit(buf[4], 16) # 0             \* cd
    \/ U16(buf[5], buf[6]) = 0         \* qdcount <= 0 (unsigned)
    \/ U16(buf[7], buf[8]) > 0         \* ancount > 0

RewriteHeaderKeepNs(buf, rcode) ==
    [i \in 1..Len(buf) |->
        CASE i = 3 -> SetBit(SetBit(buf[3], 128), 4)
          [] i = 4 -> (SetBit(buf[4], 128) \div 16) * 16 + rcode
          [] i \in 7..8 -> 0
          [] OTHER -> buf[i]]

\* qr = aa = ra = 1, rcode set, ancount = nscount = 0, copied back over 12 octets
RewriteHeader(buf, rcode) ==
    [i \in 1..Len(buf) |->
        CASE i = 3 -> SetBit(SetBit(buf[3], 128), 4)
          [] i = 4 -> (SetBit(buf[4], 128) \div 16) * 16 + rcode
          [] i \in 7..10 -> 0
          [] OTHER -> buf[i]]

\* ntohs(dnsHeader.id)
HeaderId(buf) == U16(buf[1], buf[2])

-----------------------------------------------------------------------------
(* The decision list of l.439, 457, 475 *)

ClassifyNoTypeCheck(bad, type, class, name, bl) ==
    IF type <= 0 \/ class <= 0 \/ bad THEN "FormatError"
    ELSE IF isBlacklisted(name, bl) THEN "Refused"
    ELSE "Forward"

Classify(bad, type, class, name, bl) ==
    IF type <= 0 \/ class <= 0 \/ bad THEN "FormatError"
    ELSE IF type # 1 \/ class # 1 THEN "NotImplemented"
    ELSE IF isBlacklisted(name, bl) THEN "Refused"
    ELSE "Forward"

RcodeOf(verdict) ==
    CASE verdict = "FormatError" -> 1
      [] verdict = "NotImplemented" -> 4
      [] verdict = "Refused" -> 5

-----------------------------------------------------------------------------
(* The table: write at the cursor (l.491-497), scan in index order (l.524-533) *)

Slots == 0..(TableSize - 1)

NextCounterMod(c) == (c + 1) % TableSize

\* portsCounter++; if (portsCounter == 31) portsCounter = 0;
NextCounter(c) == IF c + 1 = WrapAt THEN 0 ELSE c + 1

ResolveFrom1(idArr, x) ==
    IF \E i \in Slots \ {0} : idArr[i] = x
    THEN CHOOSE i \in Slots \ {0} : idArr[i] = x /\ \A j \in 1..(i - 1) : idArr[j] # x
    ELSE -1

ResolveLast(idArr, x) ==
    IF \E i \in Slots : idArr[i] = x
    THEN CHOOSE i \in Slots : idArr[i] = x /\ \A j \in Slots : idArr[j] = x => j <= i
    ELSE -1

\* index of the first slot whose id equals x, -1 when the scan ends without a match
Resolve(idArr, x) ==
    IF \E i \in Slots : idArr[i] = x
    THEN CHOOSE i \in Slots : idArr[i] = x /\ \A j \in 0..(i - 1) : idArr[j] # x
    ELSE -1

-----------------------------------------------------------------------------
(* History records *)

NoAddr == [port |-> 0, addr |-> 0]

NoEv(kind) ==
    [kind |-> kind, rcvd |-> <<>>, src |-> NoAddr, tried |-> FALSE, undef |-> FALSE,
     span |-> 0, wrote |-> 0, name |-> <<>>, qtype |-> 0, qclass |-> 0, verdict |-> "None", sends |-> <<>>]

\* one sendto call: socket, octets, destination, and whether the call succeeded
Send(sock, bytes, to, ok) == [sock |-> sock, bytes |-> bytes, to |-> to, ok |-> ok]

SentWholeBuffer(buf, len) == buf

\* sendto(..., resp->buffer, resp->length, ...): the first len octets of the buffer
SentBytes(buf, len) == Take(buf, len)

\* recvfrom(..., BUFFER_SIZE, ...): a longer datagram is cut to the buffer
Recv(d) == IF Len(d) > BufLen THEN Take(d, BufLen) ELSE d

-----------------------------------------------------------------------------
(* Inputs *)

Enc(labels) ==
    LET F[k \in 0..Len(labels)] ==
            IF k = 0 THEN <<0>>
            ELSE LET l == labels[Len(labels) - k + 1] IN <<Len(l)>> \o l \o F[k - 1]
    IN  F[Len(labels)]

Question(labels, t, c) == Enc(labels) \o <<Hi(t), Lo(t), Hi(c), Lo(c)>>

Header(id, b2, b3, qd, an) ==
    <<Hi(id), Lo(id), b2, b3, Hi(qd), Lo(qd), Hi(an), Lo(an), 0, 1, 0, 1>>

\* a query header: rd set, one question (nscount and arcount are 1 in every header)
SaneHeader(id) == Header(id, 1, 0, 1, 0)

\* every name below encodes to 6 octets, so every full query has 22 octets
NameAds == << <<97, 97, 100, 115>> >>             \* "aads"
NameADs == << <<97>>, <<100, 115>> >>             \* "a.ds"
NameOk == << <<111, 107, 97, 121>> >>             \* "okay"
NameNul == << <<0, 97, 100, 115>> >>              \* "\0ads": the C string is empty

\* the label "oka", then a compression pointer to offset 0, then type 1, class 1
PointerQuestion == <<3, 111, 107, 97, 192, 0, 0, 1, 0, 1>>

TypeClass == {<<1, 1>>, <<15, 1>>, <<1, 3>>, <<0, 1>>, <<1, 0>>, <<256, 1>>}

BadHeaders ==
    { Header(1, 129, 0, 1, 0),       \* qr set
      Header(1, 1, 64, 1, 0),        \* unused bit set
      Header(1, 1, 16, 1, 0),        \* cd set
      Header(1, 1, 0, 0, 0),         \* qdcount 0
      Header(1, 1, 0, 1, 1),         \* ancount 1
      Header(1, 1, 0, 1, 256) }      \* ancount 256

ClientMenu ==
    {SaneHeader(1) \o Question(NameAds, tc[1], tc[2]) : tc \in TypeClass}
    \cup {SaneHeader(1) \o Question(NameOk, tc[1], tc[2]) : tc \in {<<1, 1>>, <<15, 1>>}}
    \cup {SaneHeader(1) \o Question(n, 1, 1) : n \in {NameADs, NameNul}}
    \cup {h \o Question(NameAds, 1, 1) : h \in BadHeaders}
    \cup {SaneHeader(1), Header(1, 1, 0, 1, 1)}                            \* 12 octets
    \cup {Take(SaneHeader(1), 3)}                                          \* shorter than a header
    \cup {SaneHeader(1) \o <<2, 111>>}                                     \* cut inside a label
    \cup {SaneHeader(1) \o <<192, 12, 0, 1, 0, 1>>}                        \* compression pointer
    \cup {SaneHeader(1) \o PointerQuestion}

Clients == {[port |-> 4001, addr |-> 10], [port |-> 4002, addr |-> 11]}

Upstream == [port |-> 53, addr |-> 99]
Sources == {Upstream, [port |-> 53, addr |-> 98]}

Answer(id) == Header(id, 129, 128, 1, 1) \o Question(NameOk, 1, 1)

ServerMenu == {Answer(id) : id \in {0, 1, 2}} \cup {<<0>>}

BlAds == << <<97, 100, 115>> >>                   \* one entry, "ads"
BlXDs == << <<120>>, <<100, 115>> >>              \* two entries, "x" and "ds"

\* startup states: <<octet the fresh buffer holds, blacklist, char is signed>>
Configs == {<<0, BlAds, TRUE>>, <<1, BlXDs, TRUE>>, <<1, BlAds, FALSE>>, <<0, BlXDs, FALSE>>}

\* what a call that left its buffers may have produced
UBOutcomes ==
    {[name |-> n, type |-> t, class |-> c] : n \in {<<>>, <<97, 100, 115>>}, t \in {0, 1, 15}, c \in {0, 1}}

-----------------------------------------------------------------------------
(* State after startup, l.389-410 *)

InitTable ==
    /\ ids = [i \in Slots |-> 0]
    /\ ports = [i \in Slots |-> 0]
    /\ addresses = [i \in Slots |-> 0]
    /\ portsCounter = 0

Init ==
    /\ pc = "poll"
    /\ revents = [c |-> FALSE, s |-> FALSE]
    /\ \E cfg \in Configs :
         /\ buffer = [i \in 1..BufLen |-> cfg[1]]     \* malloc, not cleared
         /\ blacklist = cfg[2]
         /\ charSigned = cfg[3]
    /\ InitTable
    /\ ev = NoEv("none")
    /\ recLog = <<>>

-----------------------------------------------------------------------------
(* poll, l.414-417 *)

\* poll returns with the POLLIN bits rc (client socket) and rs (server socket)
Poll(rc, rs) ==
    /\ pc = "poll"
    /\ revents' = [c |-> rc, s |-> rs]
    /\ pc' = "client"
    /\ ev' = NoEv("poll")
    /\ UNCHANGED <<buffer, ids, ports, addresses, portsCounter,
                   blacklist, charSigned, recLog>>

\* clear(), l.71-91: sockets closed, blacklist and buffer freed, exit
Clear(why) ==
    /\ pc' = "exit"
    /\ ev' = NoEv(why)
    /\ buffer' = <<>>
    /\ blacklist' = <<>>
    /\ UNCHANGED <<revents, ids, ports, addresses, portsCounter,
                   charSigned, recLog>>

\* poll returns -1: message, then clear()
PollFail == pc = "poll" /\ Clear("pollfail")

\* SIGINT, SIGQUIT or SIGTERM while blocked in poll: the handler is clear()
Signal == pc = "poll" /\ Clear("signal")

-----------------------------------------------------------------------------
(* Client socket, l.419-503 *)

ClientSkip ==
    /\ pc = "client" /\ ~revents.c
    /\ pc' = "server"
    /\ UNCHANGED <<revents, buffer, ids, ports, addresses, portsCounter,
                   blacklist, charSigned, ev, recLog>>

\* recvfrom returns -1: message, continue
ClientRecvFail ==
    /\ pc = "client" /\ revents.c
    /\ pc' = "poll"
    /\ ev' = NoEv("crecvfail")
    /\ UNCHANGED <<revents, buffer, ids, ports, addresses, portsCounter,
                   blacklist, charSigned, recLog>>

\* name is not written and type = class = 0 when the decode is skipped (l.434-437)
NoDec == [name |-> <<>>, type |-> 0, class |-> 0]
NoRaw == [name |-> <<>>, type |-> 0, class |-> 0, oob |-> FALSE, ovf |-> FALSE,
          span |-> 0, wrote |-> 0]

\* a datagram d from src is received and handled to the end of the branch;
\* sendOk is the result of the sendto, cap the number of table writes the run
\* allows; ub is the outcome of a name decode that left its buffers
ClientQuery(d, src, sendOk, cap) ==
    /\ pc = "client" /\ revents.c
    /\ \E rcvd \in {Recv(d)} :
       \E buf1 \in {Overlay(buffer, rcvd)} :
       \E bad \in {badPacket(buf1)} :
       \E raw \in {IF bad THEN NoRaw ELSE getDnsRequestData(buf1, charSigned)} :
       \E dec \in (IF bad THEN {NoDec}
                   ELSE IF raw.oob \/ raw.ovf THEN UBOutcomes
                   ELSE {[name |-> raw.name, type |-> raw.type, class |-> raw.class]}) :
       \E verdict \in {Classify(bad, dec.type, dec.class, dec.name, blacklist)} :
       \E e \in {[kind |-> "client", rcvd |-> rcvd, src |-> src, tried |-> ~bad,
                  undef |-> raw.oob \/ raw.ovf, span |-> raw.span, wrote |-> raw.wrote,
                  name |-> dec.name, qtype |-> dec.type,
                  qclass |-> dec.class, verdict |-> verdict, sends |-> <<>>]} :
           /\ IF verdict = "Forward"
              THEN /\ Len(recLog) < cap
                   /\ ports' = [ports EXCEPT ![portsCounter] = src.port]
                   /\ ids' = [ids EXCEPT ![portsCounter] = HeaderId(buf1)]
                   /\ addresses' = [addresses EXCEPT ![portsCounter] = src.addr]
                   /\ portsCounter' = NextCounter(portsCounter)
                   /\ recLog' = Append(recLog, [id |-> HeaderId(buf1), port |-> src.port,
                                                addr |-> src.addr, slot |-> portsCounter])
                   /\ buffer' = buf1
                   /\ ev' = [e EXCEPT !.sends = <<Send("server", SentBytes(buf1, Len(rcvd)), Upstream, sendOk)>>]
                   /\ pc' = "server"
              ELSE \E buf2 \in {RewriteHeader(buf1, RcodeOf(verdict))} :
                   /\ buffer' = buf2
                   /\ ev' = [e EXCEPT !.sends = <<Send("client", SentBytes(buf2, Len(rcvd)), src, sendOk)>>]
                   /\ pc' = "poll"
                   /\ UNCHANGED <<ids, ports, addresses, portsCounter, recLog>>
    /\ UNCHANGED <<revents, blacklist, charSigned>>

-----------------------------------------------------------------------------
(* Server socket, l.505-535 *)

ServerSkip ==
    /\ pc = "server" /\ ~revents.s
    /\ pc' = "poll"
    /\ UNCHANGED <<revents, buffer, ids, ports, addresses, portsCounter,
                   blacklist, charSigned, ev, recLog>>

ServerRecvFail ==
    /\ pc = "server" /\ revents.s
    /\ pc' = "poll"
    /\ ev' = NoEv("srecvfail")
    /\ UNCHANGED <<revents, buffer, ids, ports, addresses, portsCounter,
                   blacklist, charSigned, recLog>>

ServerAnswerConsume(d, src, sendOk) ==
    /\ pc = "server" /\ revents.s
    /\ \E rcvd \in {Recv(d)} :
       \E buf1 \in {Overlay(buffer, rcvd)} :
       \E i \in {Resolve(ids, HeaderId(buf1))} :
       \E e \in {[NoEv("server") EXCEPT !.rcvd = rcvd, !.src = src, !.tried = TRUE]} :
           /\ buffer' = buf1
           /\ IF i # -1
              THEN \E to \in {[port |-> ports[i], addr |-> addresses[i]]} :
                   /\ ev' = [e EXCEPT !.verdict = "Relay",
                                         !.sends = <<Send("client", SentBytes(buf1, Len(rcvd)), to, sendOk)>>]
                   /\ ids' = [ids EXCEPT ![i] = 0]
                   /\ ports' = [ports EXCEPT ![i] = 0]
                   /\ addresses' = [addresses EXCEPT ![i] = 0]
              ELSE /\ ev' = [e EXCEPT !.verdict = "Drop"]
                   /\ UNCHANGED <<ids, ports, addresses>>
    /\ pc' = "poll"
    /\ UNCHANGED <<revents, portsCounter, blacklist, charSigned, recLog>>

\* a datagram d from src is received; a source other than the resolver is only
\* reported; the name is decoded for the log only; the table is scanned for the id
ServerAnswer(d, src, sendOk) ==
    /\ pc = "server" /\ revents.s
    /\ \E rcvd \in {Recv(d)} :
       \E buf1 \in {Overlay(buffer, rcvd)} :
       \E i \in {Resolve(ids, HeaderId(buf1))} :
       \E e \in {[NoEv("server") EXCEPT !.rcvd = rcvd, !.src = src, !.tried = TRUE]} :
           /\ buffer' = buf1
           /\ IF i # -1
              THEN \E to \in {[port |-> ports[i], addr |-> addresses[i]]} :
                   ev' = [e EXCEPT !.verdict = "Relay",
                                      !.sends = <<Send("client", SentBytes(buf1, Len(rcvd)), to, sendOk)>>]
              ELSE ev' = [e EXCEPT !.verdict = "Drop"]
    /\ pc' = "poll"
    /\ UNCHANGED <<revents, ids, ports, addresses, portsCounter, blacklist, charSigned, recLog>>

-----------------------------------------------------------------------------
(* Mixed traffic: any datagram of the menus, at most MaxRecords forwards *)

Next ==
    \/ \E rc \in BOOLEAN, rs \in BOOLEAN : Poll(rc, rs)
    \/ PollFail
    \/ Signal
    \/ ClientSkip
    \/ ClientRecvFail
    \/ \E d \in ClientMenu, src \in Clients, sendOk \in BOOLEAN :
          ClientQuery(d, src, sendOk, MaxRecords)
    \/ ServerSkip
    \/ ServerRecvFail
    \/ \E d \in ServerMenu, src \in Sources, sendOk \in BOOLEAN : ServerAnswer(d, src, sendOk)

Spec == Init /\ [][Next]_vars

-----------------------------------------------------------------------------
(* Ring traffic: forwardable queries only, with transaction ids 0, 1, 2, ...  *)
(* from the first client, and at most one query from the second client that   *)
(* reuses an id; answers carry the first id, the reused id or an id never     *)
(* used.  Up to MaxRing table writes, so the cursor wraps.                    *)

Query(id) == SaneHeader(id) \o Question(NameOk, 1, 1)

FirstClient == [port |-> 4001, addr |-> 10]
SecondClient == [port |-> 4002, addr |-> 11]

AliasIds == {7}
UnusedIds == {40}

Aliased == \E k \in 1..Len(recLog) : recLog[k].port = SecondClient.port

RingQueries ==
    {<<Query(Len(recLog) % 65536), FirstClient>>}
    \cup (IF Aliased THEN {} ELSE {<<Query(a), SecondClient>> : a \in AliasIds})

RingAnswers == {Answer(id) : id \in {0} \cup AliasIds \cup UnusedIds}

NextRing ==
    \/ \E rc \in BOOLEAN, rs \in BOOLEAN : Poll(rc, rs)
    \/ PollFail
    \/ Signal
    \/ ClientSkip
    \/ ClientRecvFail
    \/ \E q \in RingQueries, sendOk \in BOOLEAN : ClientQuery(q[1], q[2], sendOk, MaxRing)
    \/ ServerSkip
    \/ ServerRecvFail
    \/ \E d \in RingAnswers, sendOk \in BOOLEAN : ServerAnswer(d, Upstream, sendOk)

SpecRing == Init /\ [][NextRing]_vars

-----------------------------------------------------------------------------
(* The loop under fairness.  poll is level-triggered: POLLIN is reported for  *)
(* a socket as long as a datagram is queued on it, and a datagram leaves the  *)
(* queue only through recvfrom.  A datagram is known to be queued upstream    *)
(* from the wake that reported it until the server branch has run: while main *)
(* is in the client or server branch of that wake, and back at poll when the  *)
(* client branch left the iteration through continue (l.423, 454, 472, 489).  *)

UpstreamPending ==
    /\ revents.s
    /\ \/ pc \in {"client", "server"}
       \/ pc = "poll" /\ ev.kind \in {"client", "crecvfail"}

\* poll returns; a datagram still queued upstream is reported again
PollLevel(rc, rs) == (UpstreamPending => rs) /\ Poll(rc, rs)

FairClientMenu ==
    { SaneHeader(1) \o Question(NameAds, 1, 1),         \* refused
      SaneHeader(1) \o Question(NameOk, 15, 1),         \* not implemented
      SaneHeader(1) \o Question(NameOk, 1, 1),          \* forwarded
      Header(1, 1, 0, 0, 0) \o Question(NameOk, 1, 1) } \* format error

FairServerMenu == {Answer(id) : id \in {1, 2}}

\* the steps of the server branch
ServerStep ==
    \/ ServerSkip
    \/ ServerRecvFail
    \/ \E d \in FairServerMenu, src \in Sources, sendOk \in BOOLEAN : ServerAnswer(d, src, sendOk)

NextFair ==
    \/ \E rc \in BOOLEAN, rs \in BOOLEAN : PollLevel(rc, rs)
    \/ PollFail
    \/ Signal
    \/ ClientSkip
    \/ ClientRecvFail
    \/ \E d \in FairClientMenu, src \in Clients, sendOk \in BOOLEAN :
          ClientQuery(d, src, sendOk, MaxRecords)
    \/ ServerStep

\* the loop never stops between two steps, and the server branch, once
\* reached, runs
SpecFair == Init /\ [][NextFair]_vars /\ WF_vars(NextFair) /\ WF_vars(ServerStep)

-----------------------------------------------------------------------------
(* Vocabulary of the properties.  These read only the received datagram, the *)
(* blacklist and the history; none of them uses the operators above that     *)
(* model the decoder, the header test or the decision list.                  *)

\* e occurs in name as a contiguous run of octets
Occurs(e, name) == \E i \in 1..(Len(name) - Len(e) + 1) : SubSeq(name, i, i + Len(e) - 1) = e
ContainsEntry(name, bl) == \E k \in 1..Len(bl) : Occurs(bl[k], name)

\* the name the decoder handed on, as the string the program sees
DecodedName == CStr(ev.name)

HasHeader(d) == Len(d) >= 12
QrSet(d) == d[3] >= 128
AnCount(d) == d[7] * 256 + d[8]
SaneHdr(d) ==
    /\ HasHeader(d)
    /\ ~QrSet(d)
    /\ (d[4] \div 64) % 2 = 0
    /\ (d[4] \div 16) % 2 = 0
    /\ d[5] * 256 + d[6] >= 1
    /\ AnCount(d) = 0

\* RFC 1035 question: labels of 1..63 octets, a zero octet, type and class, all
\* inside the datagram.  RefNameEnd is the C index just past the zero octet, -1
\* when the name is not of that form.
RECURSIVE RefNameEnd(_, _)
RefNameEnd(d, k) ==
    IF k >= Len(d) THEN -1
    ELSE IF d[k + 1] = 0 THEN k + 1
    ELSE IF d[k + 1] > 63 \/ k + d[k + 1] >= Len(d) THEN -1
    ELSE RefNameEnd(d, k + 1 + d[k + 1])

RECURSIVE RefName(_, _)
RefName(d, k) ==
    IF d[k + 1] = 0 THEN <<>>
    ELSE (IF k = 12 THEN <<>> ELSE <<46>>) \o SubSeq(d, k + 2, k + 1 + d[k + 1])
         \o RefName(d, k + 1 + d[k + 1])

Decodable(d) == HasHeader(d) /\ RefNameEnd(d, 12) # -1 /\ RefNameEnd(d, 12) + 4 <= Len(d)
RefType(d) == d[RefNameEnd(d, 12) + 1] * 256 + d[RefNameEnd(d, 12) + 2]
RefClass(d) == d[RefNameEnd(d, 12) + 3] * 256 + d[RefNameEnd(d, 12) + 4]

ClientEvent == ev.kind = "client"
ServerEvent == ev.kind = "server"

SentUpstream(e) == \E k \in 1..Len(e.sends) : e.sends[k].sock = "server"
SentToClient(e) == \E k \in 1..Len(e.sends) : e.sends[k].sock = "client"

\* exactly one sendto, to the sender, of as many octets as were received, whose
\* header carries response code rc
RepliedWith(e, rc) ==
    /\ Len(e.sends) = 1
    /\ e.sends[1].sock = "client"
    /\ e.sends[1].to = e.src
    /\ Len(e.sends[1].bytes) = Len(e.rcvd)
    /\ Len(e.rcvd) >= 4
    /\ e.sends[1].bytes[4] % 16 = rc

Table == <<ids, ports, addresses, portsCounter>>

-----------------------------------------------------------------------------
(* C1: a client query whose decoded name contains a blacklist entry is never *)
(* sent to the upstream endpoint and never changes the table, whatever its   *)
(* type and class and whatever happened before.  The decoded name is the     *)
(* string the decoder produced (it ends at the first NUL octet).             *)
C1_BlacklistedNeverForwarded ==
    [][(ev'.kind = "client" /\ ev'.tried /\ ContainsEntry(CStr(ev'.name), blacklist))
        => (~SentUpstream(ev') /\ Table' = Table /\ recLog' = recLog)]_vars

C1_Witness ==
    /\ ClientEvent /\ ev.tried /\ ~ev.undef
    /\ ContainsEntry(DecodedName, blacklist)
    /\ ev.qtype = 1 /\ ev.qclass = 1
    /\ RepliedWith(ev, 5)

(* C2 as stated: a query (a datagram that holds a whole question) with a     *)
(* sane header whose decoded name contains a blacklist entry is answered     *)
(* with response code 5 for every type and class                             *)
C2_AsClaimed ==
    (ClientEvent /\ SaneHdr(ev.rcvd) /\ Decodable(ev.rcvd)
        /\ ContainsEntry(DecodedName, blacklist))
        => RepliedWith(ev, 5)

(* C2 amended: a query with a sane header whose decoded name contains a      *)
(* blacklist entry and whose decoded type and class are both 1 is answered   *)
(* with response code 5                                                      *)
C2_RefusedWhenAIN ==
    (ClientEvent /\ SaneHdr(ev.rcvd) /\ ContainsEntry(DecodedName, blacklist)
        /\ ev.qtype = 1 /\ ev.qclass = 1)
        => RepliedWith(ev, 5)

C2_Witness ==
    /\ ClientEvent /\ SaneHdr(ev.rcvd) /\ Decodable(ev.rcvd)
    /\ ContainsEntry(DecodedName, blacklist)
    /\ DecodedName = <<97, 46, 100, 115>>
    /\ ev.qtype = 1 /\ ev.qclass = 1
    /\ RepliedWith(ev, 5)

(* C3: a query classified Forward (sane header, type 1, class 1, name not    *)
(* blacklisted) is sent upstream with exactly the octets and length that     *)
(* were received, and a well-formed query of that kind is classified         *)
(* Forward; an answer relayed to a client is sent with exactly the octets    *)
(* and length received from upstream.                                        *)
C3_ExactBytes ==
    /\ (ClientEvent /\ ev.verdict = "Forward")
         => /\ ev.sends = <<Send("server", ev.rcvd, Upstream, ev.sends[1].ok)>>
            /\ ev.tried /\ ev.qtype = 1 /\ ev.qclass = 1
            /\ ~ContainsEntry(DecodedName, blacklist)
    /\ (ClientEvent /\ SaneHdr(ev.rcvd) /\ Decodable(ev.rcvd)
          /\ RefType(ev.rcvd) = 1 /\ RefClass(ev.rcvd) = 1
          /\ ~ContainsEntry(CStr(RefName(ev.rcvd, 12)), blacklist))
         => (ev.verdict = "Forward" /\ SentUpstream(ev))
    /\ (ServerEvent /\ ev.sends # <<>>)
         => /\ Len(ev.sends) = 1
            /\ ev.sends[1].sock = "client"
            /\ ev.sends[1].bytes = ev.rcvd

C3_Witness ==
    /\ ClientEvent /\ ev.verdict = "Forward"
    /\ Decodable(ev.rcvd) /\ Len(ev.rcvd) = 22
    /\ ev.sends[1].bytes = ev.rcvd

C3_WitnessRelay ==
    /\ ServerEvent /\ ev.verdict = "Relay" /\ Len(ev.rcvd) = 22
    /\ \E k \in 1..Len(recLog) : ev.sends[1].to = [port |-> recLog[k].port, addr |-> recLog[k].addr]

-----------------------------------------------------------------------------
(* History of the table writes *)

RecordedIds == {recLog[k].id : k \in 1..Len(recLog)}

Writes == 1..Len(recLog)

\* recLog[k] is the latest write made with its id
IsLast(k) == \A m \in (k + 1)..Len(recLog) : recLog[m].id # recLog[k].id

\* the slot written by recLog[k] has not been written again
StillThere(k) == \A m \in (k + 1)..Len(recLog) : recLog[m].slot # recLog[k].slot

\* no slot below the one written by recLog[k] holds its id
NoLowerMatch(k) == \A j \in 0..(recLog[k].slot - 1) : ids[j] # recLog[k].id

NotFound == [port |-> -1, addr |-> -1]

\* what the scan of the table yields for id x: an endpoint, or NotFound
Resolved(x) ==
    LET i == Resolve(ids, x)
    IN  IF i = -1 THEN NotFound ELSE [port |-> ports[i], addr |-> addresses[i]]

Origin(k) == [port |-> recLog[k].port, addr |-> recLog[k].addr]

\* the id the handler read from the buffer after the last answer was received
AnswerId == HeaderId(buffer)

(* C4 as stated: after a table write (X, P, A), a lookup of X made before    *)
(* any other write with id X yields (P, A), for every earlier content of the *)
(* table and every number of writes with other ids in between, and the       *)
(* answer carrying X goes to (P, A)                                          *)
C4_AsClaimed ==
    \A k \in Writes :
        IsLast(k) =>
            /\ Resolved(recLog[k].id) = Origin(k)
            /\ (ServerEvent /\ AnswerId = recLog[k].id)
                 => (SentToClient(ev) /\ ev.sends[1].to = Origin(k))

(* C4 amended: after a table write (X, P, A), a lookup of X made before any  *)
(* other write with id X yields (P, A), and the answer carrying X is sent to *)
(* (P, A), provided that the slot written has not been written again (fewer  *)
(* than 31 writes in between) and no slot of lower index holds X             *)
C4_RoundTrip ==
    \A k \in Writes :
        (IsLast(k) /\ StillThere(k) /\ NoLowerMatch(k)) =>
            /\ Resolved(recLog[k].id) = Origin(k)
            /\ (ServerEvent /\ AnswerId = recLog[k].id)
                 => /\ Len(ev.sends) = 1
                    /\ ev.sends[1].sock = "client"
                    /\ ev.sends[1].to = Origin(k)

\* an answer goes to the second client, whose query reused an id after the
\* cursor had wrapped, while the older entry with that id is still in the
\* table at a higher index and another write has been made since
C4_Witness ==
    \E k \in Writes :
        /\ k >= 32 /\ k < Len(recLog)
        /\ IsLast(k) /\ StillThere(k) /\ NoLowerMatch(k)
        /\ \E j \in Slots : j > recLog[k].slot /\ ids[j] = recLog[k].id
        /\ ServerEvent /\ AnswerId = recLog[k].id
        /\ ev.sends[1].to = Origin(k)
        /\ Origin(k) = SecondClient

(* C5 as stated: after 32 table writes with pairwise distinct ids (any       *)
(* 16-bit values, 0 included), the lookup of the id of the first of them     *)
(* finds nothing, and an answer carrying that id is sent to no client        *)
C5_AsClaimed ==
    LET n == Len(recLog)
    IN  (n >= 32 /\ \A a, b \in (n - 31)..n : a # b => recLog[a].id # recLog[b].id)
            => /\ Resolved(recLog[n - 31].id) = NotFound
               /\ (ServerEvent /\ AnswerId = recLog[n - 31].id) => ~SentToClient(ev)

(* C6 as stated: an upstream datagram (with a whole header) whose id was     *)
(* never written to the table (any 16-bit value) is dropped: nothing is sent *)
(* to a client                                                               *)
C6_AsClaimed ==
    (ServerEvent /\ HasHeader(ev.rcvd) /\ AnswerId \notin RecordedIds) => ev.sends = <<>>

(* C7 as stated: a 12-octet client datagram is always answered with response *)
(* code 1, whatever came before and whatever its header holds (the claim     *)
(* adds that no name decode is attempted on it).  Stated for the steps in    *)
(* which every octet read had been written by an earlier receive.            *)
C7_AsClaimed ==
    (ClientEvent /\ Len(ev.rcvd) = 12 /\ ~ev.undef) => RepliedWith(ev, 1)

(* C8: a client datagram whose header has answer-count > 0 or the response   *)
(* flag set is answered, to its sender, with response code 1 and with the    *)
(* same length and the same octets from offset 12 on; it is not forwarded    *)
(* and its name is not decoded                                               *)
C8_BadHeaderEchoed ==
    (ClientEvent /\ HasHeader(ev.rcvd) /\ (AnCount(ev.rcvd) > 0 \/ QrSet(ev.rcvd)))
        => /\ RepliedWith(ev, 1)
           /\ \A i \in 13..Len(ev.rcvd) : ev.sends[1].bytes[i] = ev.rcvd[i]
           /\ ~SentUpstream(ev)
           /\ ~ev.tried

\* the case where the rest of the datagram is a blacklisted A/IN question
C8_Witness ==
    /\ ClientEvent /\ HasHeader(ev.rcvd) /\ AnCount(ev.rcvd) > 0 /\ ~QrSet(ev.rcvd)
    /\ Decodable(ev.rcvd) /\ RefType(ev.rcvd) = 1 /\ RefClass(ev.rcvd) = 1
    /\ ContainsEntry(RefName(ev.rcvd, 12), blacklist)
    /\ RepliedWith(ev, 1)
    /\ SubSeq(ev.sends[1].bytes, 13, 22) = SubSeq(ev.rcvd, 13, 22)

(* C9 as stated: a query with a sane header and a decodable question whose   *)
(* type is not 1 or whose class is not 1 is answered with response code 4    *)
(* and is not forwarded                                                      *)
C9_AsClaimed ==
    (ClientEvent /\ SaneHdr(ev.rcvd) /\ Decodable(ev.rcvd)
        /\ (RefType(ev.rcvd) # 1 \/ RefClass(ev.rcvd) # 1))
        => (RepliedWith(ev, 4) /\ ~SentUpstream(ev))

(* C9 amended: a query with a sane header and a decodable question whose     *)
(* type and class are both nonzero, and whose type is not 1 or whose class   *)
(* is not 1, is answered with response code 4 and is not forwarded           *)
C9_NotImplemented ==
    (ClientEvent /\ SaneHdr(ev.rcvd) /\ Decodable(ev.rcvd)
        /\ RefType(ev.rcvd) # 0 /\ RefClass(ev.rcvd) # 0
        /\ (RefType(ev.rcvd) # 1 \/ RefClass(ev.rcvd) # 1))
        => (RepliedWith(ev, 4) /\ ~SentUpstream(ev))

\* type 256: the two octets of the type are 1, 0
C9_Witness ==
    /\ ClientEvent /\ SaneHdr(ev.rcvd) /\ Decodable(ev.rcvd)
    /\ RefType(ev.rcvd) = 256 /\ RefClass(ev.rcvd) = 1
    /\ RepliedWith(ev, 4)

(* C10 as stated: no failure inside the loop ends the process; the only exit *)
(* is a termination signal                                                   *)
C10_AsClaimed == pc = "exit" => ev.kind = "signal"

-----------------------------------------------------------------------------
\* the transaction id carried by a datagram that has one
IdOf(d) == d[1] * 256 + d[2]

(* C11: datagrams are handled one at a time and in the order received: a     *)
(* step sends at most one datagram; a datagram sent upstream is the one the  *)
(* same step received from a client, and it is the table write appended by   *)
(* that step; a datagram relayed to a client is the one the same step        *)
(* received from upstream; nothing is sent by a step that received nothing.  *)
(* Hence the queries of one client, which arrive with the ids 0, 1, 2, ...,  *)
(* are recorded and sent upstream with increasing ids.                       *)
C11_InOrder ==
    /\ [](\A a, b \in Writes :
            (a < b /\ Origin(a) = FirstClient /\ Origin(b) = FirstClient)
                => recLog[a].id < recLog[b].id)
    /\ [][ev' # ev =>
            /\ Len(ev'.sends) <= 1
            /\ ev'.sends # <<>> => ev'.kind \in {"client", "server"}
            /\ (ev'.kind = "client" /\ SentUpstream(ev')) =>
                  /\ ev'.sends[1].bytes = ev'.rcvd
                  /\ recLog' = Append(recLog, [id |-> IdOf(ev'.rcvd), port |-> ev'.src.port,
                                               addr |-> ev'.src.addr, slot |-> portsCounter])
            /\ (ev'.kind = "server" /\ ev'.sends # <<>>) => ev'.sends[1].bytes = ev'.rcvd
            /\ recLog' # recLog => (ev'.kind = "client" /\ SentUpstream(ev'))]_vars

\* the answer to the first query is relayed after later queries were forwarded
C11_Witness ==
    /\ Len(recLog) >= 3
    /\ \A k \in 1..3 : Origin(k) = FirstClient /\ recLog[k].id = k - 1
    /\ ServerEvent /\ ev.verdict = "Relay"
    /\ ev.sends[1].to = FirstClient
    /\ ev.sends[1].bytes = ev.rcvd

-----------------------------------------------------------------------------
\* main is back at poll after a wake that reported both sockets ready
WakeDoneBothReady == pc = "poll" /\ revents.c /\ revents.s

(* C12 as stated: when a wake reports both sockets ready, one datagram of    *)
(* each is received and handled in that wake, whatever the verdict or the    *)
(* receive outcome on the client socket: when the loop is back at poll, the  *)
(* last thing it did is the receive on the server socket.  Stated for the   *)
(* wakes in which the receive on the client socket succeeded.                *)
C12_AsClaimed ==
    (WakeDoneBothReady /\ ev.kind # "crecvfail") => ev.kind \in {"server", "srecvfail"}

-----------------------------------------------------------------------------
\* the slots that hold id x, and the lowest of them
MatchSlots(x) == {j \in Slots : ids[j] = x}
Lowest(M) == CHOOSE j \in M : \A i \in M : j <= i
LowestMatch(x) == Lowest(MatchSlots(x))
EntryAt(j) == [port |-> ports[j], addr |-> addresses[j]]

\* the table writes with id x whose slot has not been written again, and the
\* oldest of them
LiveWrites(x) == {k \in Writes : recLog[k].id = x /\ StillThere(k)}
Oldest(L) == CHOOSE k \in L : \A m \in L : k <= m
OldestLive(x) == Oldest(LiveWrites(x))

HeldIds == {ids[j] : j \in Slots}

(* C13 as stated: when more than one slot holds the looked-up id, the lookup *)
(* yields the entry of the lowest-index matching slot, and that entry is the *)
(* oldest recorded one among the matching entries, in every reachable table  *)
(* state, also after the cursor has wrapped                                  *)
C13_AsClaimed ==
    \A x \in HeldIds :
        Cardinality(MatchSlots(x)) > 1 =>
            /\ Resolved(x) = EntryAt(LowestMatch(x))
            /\ \A L \in {LiveWrites(x)} : L # {} => Resolved(x) = Origin(Oldest(L))

(* C13 amended: the lookup yields the entry of the lowest-index matching     *)
(* slot in every reachable table state, and an answer carrying the id is     *)
(* sent to that entry; that entry is the oldest recorded one among the       *)
(* matching entries as long as at most 31 table writes were made (the cursor *)
(* has not yet overwritten a slot)                                           *)
C13_LowestIndexWins ==
    \A x \in HeldIds :
    \A M \in {MatchSlots(x)} :
    \A low \in {EntryAt(Lowest(M))} :
        /\ Resolved(x) = low
        /\ (ServerEvent /\ HasHeader(ev.rcvd) /\ IdOf(ev.rcvd) = x)
             => (Len(ev.sends) = 1 /\ ev.sends[1].to = low)
        /\ Len(recLog) <= WrapAt
             => \A L \in {LiveWrites(x)} : L # {} => low = Origin(Oldest(L))

\* two written slots hold the id of the answer; the lower one was written
\* after the wrap by the second client and gets the answer, the older entry
\* of the first client does not
C13_Witness ==
    /\ ServerEvent /\ HasHeader(ev.rcvd)
    /\ Cardinality(LiveWrites(IdOf(ev.rcvd))) = 2
    /\ Origin(OldestLive(IdOf(ev.rcvd))) = FirstClient
    /\ ev.sends[1].to = SecondClient
    /\ EntryAt(LowestMatch(IdOf(ev.rcvd))) = SecondClient

\* the same id twice before the wrap: the older, lower entry gets the answer
C13_WitnessNoWrap ==
    /\ ServerEvent /\ HasHeader(ev.rcvd)
    /\ Len(recLog) <= WrapAt
    /\ Cardinality(LiveWrites(IdOf(ev.rcvd))) = 2
    /\ ev.sends[1].to = Origin(OldestLive(IdOf(ev.rcvd)))

-----------------------------------------------------------------------------
(* C14: the write cursor is in 0..30 whenever the loop is at poll (and at    *)
(* every other point between handlers), every table write goes to a slot in  *)
(* 0..30, and slot 31 keeps its initial content (id 0, port 0, address 0)    *)
C14_CursorRange ==
    /\ portsCounter \in 0..30
    /\ \A k \in Writes : recLog[k].slot \in 0..30
    /\ ids[31] = 0 /\ ports[31] = 0 /\ addresses[31] = 0

\* the 32nd write has been made: it went to slot 0 again, not to slot 31
C14_Witness ==
    /\ Len(recLog) >= 32
    /\ recLog[31].slot = 30
    /\ recLog[32].slot = 0
    /\ ids[0] = recLog[32].id
    /\ portsCounter = 1

-----------------------------------------------------------------------------
\* reply r to datagram d is the error reply frame: same length and id, response,
\* authoritative and recursion-available bits set, answer and authority counts
\* 0, question count, additional count and all octets after the header as in d
ErrorFrame(r, d) ==
    /\ Len(r) = Len(d)
    /\ r[1] = d[1] /\ r[2] = d[2]
    /\ r[3] >= 128
    /\ (r[3] \div 4) % 2 = 1
    /\ r[4] >= 128
    /\ r[7] = 0 /\ r[8] = 0 /\ r[9] = 0 /\ r[10] = 0
    /\ r[5] = d[5] /\ r[6] = d[6]
    /\ r[11] = d[11] /\ r[12] = d[12]
    /\ \A i \in 13..Len(d) : r[i] = d[i]

(* C15: every reply the program itself makes to a client datagram (one that  *)
(* has a whole header) is sent to the address and port the datagram came     *)
(* from, is the only datagram sent in that step, carries response code 1, 4  *)
(* or 5, and is the error reply frame of the received datagram               *)
C15_ErrorReplyFrame ==
    (ClientEvent /\ HasHeader(ev.rcvd) /\ ~SentUpstream(ev)) =>
        /\ Len(ev.sends) = 1
        /\ ev.sends[1].sock = "client"
        /\ ev.sends[1].to = ev.src
        /\ ev.sends[1].bytes[4] % 16 \in {1, 4, 5}
        /\ ErrorFrame(ev.sends[1].bytes, ev.rcvd)

\* a refused query whose header had rd set and authority and additional counts 1
C15_Witness ==
    /\ ClientEvent /\ Len(ev.rcvd) = 22
    /\ ev.rcvd[3] = 1 /\ ev.rcvd[10] = 1 /\ ev.rcvd[12] = 1
    /\ RepliedWith(ev, 5)
    /\ ev.sends[1].bytes[3] = 133
    /\ ev.sends[1].bytes[4] = 133
    /\ ev.sends[1].bytes[10] = 0 /\ ev.sends[1].bytes[12] = 1

-----------------------------------------------------------------------------
(* C16 as stated: the name decode of a client datagram writes no octet at or *)
(* beyond index 512 of the name buffer and reads no octet of the receive     *)
(* buffer past the received length (an over-long name is a failed decode,    *)
(* answered with response code 1).  Stated for the decodes that stay within  *)
(* the modelled part of the receive buffer.                                  *)
C16_AsClaimed ==
    (ClientEvent /\ ev.tried /\ ~ev.undef) =>
        /\ ev.wrote <= NameSize
        /\ ev.span <= Len(ev.rcvd)

-----------------------------------------------------------------------------
\* the question name of d, read label by label from C index k, reaches a
\* length octet with the two high bits set
RECURSIVE HasPointer(_, _)
HasPointer(d, k) ==
    IF k >= Len(d) \/ d[k + 1] = 0 THEN FALSE
    ELSE IF d[k + 1] >= 192 THEN TRUE
    ELSE HasPointer(d, k + 1 + d[k + 1])

(* C17 as stated: a client query with a sane header whose question name      *)
(* holds a compression pointer is answered with response code 1, is not sent *)
(* upstream and is not decoded into a name.  Stated for the decodes that     *)
(* stay within the modelled part of the receive buffer.                      *)
C17_AsClaimed ==
    (ClientEvent /\ SaneHdr(ev.rcvd) /\ HasPointer(ev.rcvd, 12) /\ ~ev.undef) =>
        /\ RepliedWith(ev, 1)
        /\ ~SentUpstream(ev)
        /\ ev.name = <<>>

-----------------------------------------------------------------------------
(* Two histories that end with the same client datagram.  From a state at    *)
(* the head of the client branch, reached by some history, the history that  *)
(* has one more wake before it, in which the client datagram p was answered  *)
(* with response code 1, reaches the same state except for the receive       *)
(* buffer, which then holds p with its rewritten header in its first octets. *)

\* a 22-octet datagram with the response flag set: always answered with rcode 1
EarlierDatagram == Header(1, 129, 0, 1, 0) \o Question(NameAds, 1, 1)

BufferAfter(buf, p) == RewriteHeader(Overlay(buf, p), 1)

\* what the client branch makes of datagram d when the buffer holds buf before
\* the receive: verdict and octets sent (l.420-500)
HandleIn(buf, d) ==
    LET buf1 == Overlay(buf, d)
        bad == badPacket(buf1)
        raw == IF bad THEN NoRaw ELSE getDnsRequestData(buf1, charSigned)
        verdict == Classify(bad, raw.type, raw.class, raw.name, blacklist)
    IN  [undef |-> raw.oob \/ raw.ovf,
         verdict |-> verdict,
         bytes |-> IF verdict = "Forward" THEN SentBytes(buf1, Len(d))
                   ELSE SentBytes(RewriteHeader(buf1, RcodeOf(verdict)), Len(d))]

(* C18 as stated: the verdict and the octets sent for a client datagram      *)
(* depend only on the datagram and the blacklist: the datagram gets the same *)
(* verdict and the same octets are sent in the history that has one more     *)
(* client datagram before it.  Stated for the steps in which neither         *)
(* handling leaves the modelled part of the buffer.                          *)
C18_AsClaimed ==
    [][(ev'.kind = "client" /\ ev' # ev /\ ~ev'.undef /\ Len(ev'.sends) = 1)
        => \A other \in {HandleIn(BufferAfter(buffer, EarlierDatagram), ev'.rcvd)} :
              other.undef \/ (/\ other.verdict = ev'.verdict
                              /\ other.bytes = ev'.sends[1].bytes)]_vars

\* the model's client branch and HandleIn agree on the history that was run
HandleInAgrees ==
    [][(ev'.kind = "client" /\ ev' # ev /\ ~ev'.undef)
        => \A same \in {HandleIn(buffer, ev'.rcvd)} :
              /\ ~same.undef
              /\ same.verdict = ev'.verdict
              /\ same.bytes = ev'.sends[1].bytes]_vars

-----------------------------------------------------------------------------
(* C19: the table and its cursor change only in a step that forwards a       *)
(* client query, and such a step writes the slot at the cursor with the id   *)
(* and source of the query, leaves the 31 other slots alone and advances the *)
(* cursor; error replies, failed receives and upstream answers, matched or   *)
(* not, leave the 32 slots and the cursor as they are, so after an answer    *)
(* was relayed the lookup of its id still yields the same client.  The id is *)
(* the one the handler reads from the first two octets of the buffer.        *)
C19_TableFrame ==
    [][/\ Table' # Table =>
            /\ ev'.kind = "client" /\ ev'.verdict = "Forward" /\ SentUpstream(ev')
            /\ ids'[portsCounter] = IdOf(buffer')
            /\ ports'[portsCounter] = ev'.src.port
            /\ addresses'[portsCounter] = ev'.src.addr
            /\ \A j \in Slots \ {portsCounter} :
                  ids'[j] = ids[j] /\ ports'[j] = ports[j] /\ addresses'[j] = addresses[j]
            /\ portsCounter' = IF portsCounter = 30 THEN 0 ELSE portsCounter + 1
       /\ (ev' # ev /\ ev'.kind = "client" /\ ev'.verdict = "Forward") => Table' # Table
       /\ (ev' # ev /\ ev'.kind = "server" /\ ev'.sends # <<>>) =>
            \E j \in Slots :
               /\ ids'[j] = IdOf(buffer')
               /\ \A i \in 0..(j - 1) : ids'[i] # IdOf(buffer')
               /\ ev'.sends[1].to = [port |-> ports'[j], addr |-> addresses'[j]]]_vars

\* an answer was relayed to the client that sent the query, and the entry is
\* still in the table
C19_Witness ==
    /\ ServerEvent /\ ev.verdict = "Relay" /\ HasHeader(ev.rcvd)
    /\ Len(recLog) >= 1
    /\ IdOf(ev.rcvd) = recLog[1].id
    /\ ev.sends[1].to = Origin(1)
    /\ Origin(1) \in Clients
    /\ ids[0] = recLog[1].id /\ EntryAt(0) = Origin(1)

-----------------------------------------------------------------------------
(* C20 as stated: under weak fairness of the loop, a datagram queued on the  *)
(* upstream socket is eventually received by the server branch (or the       *)
(* receive is at least attempted), unless the process exits, whatever the    *)
(* client traffic is                                                         *)
C20_AsClaimed ==
    UpstreamPending ~> (ev.kind \in {"server", "srecvfail"} \/ pc = "exit")

=============================================================================
